---- MODULE Spec2Model ----
(***************************************************************************)
(* Model of the pjrt crate's host-side runtime client (pjrt/src):          *)
(*   api.rs               the function-table calls and the error bridge    *)
(*   loaded_executable.rs the execution protocol                           *)
(*   executable.rs        the Executable / SerializedExecutable wrappers   *)
(*                        and the Executable's metadata queries            *)
(*   memory_layout.rs     the MemoryLayout conversions                     *)
(*                                                                         *)
(* Seven specifications share the variables:                               *)
(*   SpecBridge  Api::err_or and the two call macros, over function tables *)
(*               in which the two error entry points may be absent         *)
(*   Spec        call_execute / execute_sync / execute against a plugin    *)
(*               whose function table is complete                          *)
(*   SpecLife    the life cycle of the owning wrappers                     *)
(*   SpecKv      create_client_with and the key-value callbacks            *)
(*   SpecLayout  MemoryLayout constructors, encoding and decoding          *)
(*   SpecWrap    the asserting constructors                                *)
(*   SpecQuery   output_primitive_types, output_dimenssions, optimize      *)
(* Every foreign call the host issues is appended to the log `calls`, or   *)
(* to the history of the wrapper or query that issued it.                  *)
(***************************************************************************)
EXTENDS Integers, Sequences, FiniteSets, TLC

VARIABLES
    table,      \* the entries of the PJRT_Api function table that are non-null
    calls,      \* log of the foreign calls issued so far, oldest first
    errMsg,     \* plugin side: errMsg[h] = message of the error object h
    bridge,     \* SpecBridge: results of the bridge invocations so far
    pc,         \* Spec: position of the running helper
    helper,     \* Spec: "call_execute" | "execute_sync" | "execute"
    inputs,     \* Spec: the caller's input, [shape, rows]
    plugin,     \* Spec: what the plugin does during this invocation
    numOutputs, \* Spec: num_outputs read by call_execute
    mem,        \* Spec: native memory the execution call writes through
    events,     \* Spec: Event wrappers not yet consumed, by device index
    outputs,    \* Spec: the Vec<Vec<Buffer>> built by call_execute
    live,       \* Spec: wrappers (Executable, Event, Buffer) owned by the call
    result,     \* Spec: what the helper gave back to the caller
    wrappers,   \* SpecLife: the owning wrappers, each with the history of its handle
    kv,         \* SpecKv: the key-value stores, the clients and the plugin's callbacks
    codec,      \* SpecLayout: the memory layout being converted and the outcome
    query,      \* SpecQuery: the metadata query being served and its outcome
    ctor        \* SpecWrap: the handle last offered to a constructor, and whether it aborted

vars == <<table, calls, errMsg, bridge, pc, helper, inputs, plugin, numOutputs,
          mem, events, outputs, live, result, wrappers, kv, codec, query, ctor>>

OtherVars == <<kv, codec, query, ctor>>

(***************************************************************************)
(* Bounds                                                                  *)
(***************************************************************************)
MaxBridgeCalls == 2
MaxDevices == 3
MaxArgs == 2
MaxOutputs == 2
MaxWrappers == 3
MaxHist == 2

(***************************************************************************)
(* Generic helpers                                                         *)
(***************************************************************************)
Count(s, x) == Cardinality({i \in DOMAIN s : s[i] = x})

(***************************************************************************)
(* Native handles.  A handle is opaque to the host; the fields only say    *)
(* which plugin object it names.                                           *)
(***************************************************************************)
Handle(h, dev, idx) == [h |-> h, dev |-> dev, idx |-> idx]

NullErr == Handle("null", 0, 0)
ErrH(n) == Handle("error", 0, n)
ExeHandle == Handle("executable", 0, 0)
InBuf(d, a) == Handle("input", d, a)
OutBuf(d, o) == Handle("buffer", d, o)
Ev(d) == Handle("event", d, 0)
Uninit == Handle("uninit", 0, 0)
ArgsStruct == Handle("args", 0, 0)

\* Messages the plugin attaches to its error objects.
Boom == <<"b", "o", "o", "m">>
MsgGet == <<"g", "e", "t">>
MsgNum == <<"n", "u", "m">>
MsgExec == <<"e", "x", "e", "c">>
DigitChars == <<"0", "1", "2", "3", "4", "5", "6", "7", "8", "9">>
MsgEvent(d) == <<"e", "v", DigitChars[d + 1]>>

(***************************************************************************)
(* api.rs: the function table and the error bridge                         *)
(***************************************************************************)
FnErrorMessage == "PJRT_Error_Message"
FnErrorDestroy == "PJRT_Error_Destroy"

\* The entry points the model issues calls to.
AllFns ==
    { FnErrorMessage, FnErrorDestroy,
      "PJRT_Plugin_Attributes", "PJRT_Client_Create", "PJRT_Client_Destroy",
      "PJRT_LoadedExecutable_GetExecutable", "PJRT_Executable_NumOutputs",
      "PJRT_LoadedExecutable_Execute", "PJRT_LoadedExecutable_Destroy",
      "PJRT_LoadedExecutable_Delete", "PJRT_LoadedExecutable_Fingerprint",
      "PJRT_Executable_Destroy", "PJRT_Executable_Name",
      "PJRT_Executable_Serialize",
      "PJRT_Event_Await", "PJRT_Event_OnReady", "PJRT_Event_Destroy",
      "PJRT_Buffer_Destroy" }

FullTable == AllFns

\* Function tables in which the entries the bridge itself needs may be null.
BridgeTables == {AllFns \ S : S \in SUBSET {FnErrorMessage, FnErrorDestroy}}

Call(fn, arg) == [fn |-> fn, arg |-> arg]

NoValue == [tag |-> "none"]

Ok(value) == [tag |-> "Ok", value |-> value]

PjrtError(msg) == [tag |-> "Err", kind |-> "PjrtError", msg |-> msg]

NullFunctionPointer(fn) == [tag |-> "Err", kind |-> "NullFunctionPointer", fn |-> fn]

\* utils::str_from_raw(ptr, size).into_owned(): an owned copy of the first
\* `size` bytes at ptr.
StrFromRaw(bytes, size) == SubSeq(bytes, 1, size)

\* What the plugin's PJRT_Error_Message writes into the args struct.
PluginErrorMessage(msgs, err) ==
    [message |-> msgs[err.idx], message_size |-> Len(msgs[err.idx])]

\* pjrt_api_fn_ret_void!: the call is issued iff the table entry is present.
ApiFnRetVoid(tbl, fn, arg) ==
    IF fn \in tbl
    THEN [res |-> Ok("unit"), calls |-> <<Call(fn, arg)>>]
    ELSE [res |-> NullFunctionPointer(fn), calls |-> <<>>]

\* Api::err_or with the two follow-up calls swapped.
ErrOrDestroyFirst(tbl, msgs, err, value) ==
    IF err = NullErr
    THEN [res |-> Ok(value), calls |-> <<>>]
    ELSE LET d == ApiFnRetVoid(tbl, FnErrorDestroy, err)
             m == ApiFnRetVoid(tbl, FnErrorMessage, err)
             args == PluginErrorMessage(msgs, err)
             msg == StrFromRaw(args.message, args.message_size)
         IN  IF d.res.tag = "Err" THEN [res |-> d.res, calls |-> d.calls]
             ELSE IF m.res.tag = "Err" THEN [res |-> m.res, calls |-> d.calls \o m.calls]
             ELSE [res |-> PjrtError(msg), calls |-> d.calls \o m.calls]

\* Api::err_or(err, value).  `?` after PJRT_Error_Message and after
\* PJRT_Error_Destroy returns early with the NullFunctionPointer error.
ErrOr(tbl, msgs, err, value) ==
    IF err = NullErr
    THEN [res |-> Ok(value), calls |-> <<>>]
    ELSE LET m == ApiFnRetVoid(tbl, FnErrorMessage, err)
             args == PluginErrorMessage(msgs, err)
             msg == StrFromRaw(args.message, args.message_size)
             d == ApiFnRetVoid(tbl, FnErrorDestroy, err)
         IN  IF m.res.tag = "Err" THEN [res |-> m.res, calls |-> m.calls]
             ELSE IF d.res.tag = "Err" THEN [res |-> d.res, calls |-> m.calls \o d.calls]
             ELSE [res |-> PjrtError(msg), calls |-> m.calls \o d.calls]

\* pjrt_api_fn_ret_err!: look the entry up, call it, hand its return value
\* and the (plugin-filled) args struct to err_or.
ApiFnRetErr(tbl, msgs, fn, arg, err, filled) ==
    IF fn \notin tbl
    THEN [res |-> NullFunctionPointer(fn), calls |-> <<>>]
    ELSE LET r == ErrOr(tbl, msgs, err, filled)
         IN  [res |-> r.res, calls |-> <<Call(fn, arg)>> \o r.calls]

(***************************************************************************)
(* SpecBridge: the bridge driven directly (err_or on a handle the caller   *)
(* holds) and through pjrt_api_fn_ret_err!, MaxBridgeCalls times.          *)
(***************************************************************************)
BridgeMessages == {Boom, MsgExec, <<>>}

BridgeValues == {"v1", "v2"}

BridgeFns == {"PJRT_Plugin_Attributes", "PJRT_Client_Create"}

IdleOther ==
    /\ kv = [idle |-> TRUE]
    /\ codec = [idle |-> TRUE]
    /\ query = [idle |-> TRUE]
    /\ ctor = [idle |-> TRUE]

IdleExec ==
    /\ pc = "off"
    /\ helper = "none"
    /\ inputs = [shape |-> "unit", rows |-> <<>>]
    /\ plugin = [exec |-> "none", order |-> "asc", events |-> <<>>, options |-> NoValue]
    /\ numOutputs = 0
    /\ mem = [inner |-> <<>>, wild |-> <<>>, evs |-> <<>>, read |-> FALSE]
    /\ events = <<>>
    /\ outputs = <<>>
    /\ live = {}
    /\ result = [tag |-> "none", err |-> NoValue, events |-> <<>>, outputs |-> <<>>]

ExecVars == <<pc, helper, inputs, plugin, numOutputs, mem, events, outputs, live, result>>

InitBridge ==
    /\ IdleOther
    /\ table \in BridgeTables
    /\ calls = <<>>
    /\ errMsg = <<>>
    /\ bridge = <<>>
    /\ wrappers = <<>>
    /\ IdleExec

\* One bridge invocation: the handle passed, the value passed, the result,
\* and the foreign calls err_or itself issued.
BridgeRecord(err, value, r) == [err |-> err, value |-> value, res |-> r.res, calls |-> r.calls]

\* err_or(err, value) on a null handle.
BridgeErrOrNull ==
    /\ Len(bridge) < MaxBridgeCalls
    /\ \E value \in BridgeValues :
          LET r == ErrOr(table, errMsg, NullErr, value)
          IN  /\ bridge' = Append(bridge, BridgeRecord(NullErr, value, r))
              /\ calls' = calls \o r.calls
    /\ UNCHANGED <<table, errMsg, wrappers, OtherVars, ExecVars>>

\* err_or(err, value) on a fresh error object of the plugin.
BridgeErrOrError ==
    /\ Len(bridge) < MaxBridgeCalls
    /\ \E value \in BridgeValues, msg \in BridgeMessages :
          LET msgs == Append(errMsg, msg)
              err == ErrH(Len(msgs))
              r == ErrOr(table, msgs, err, value)
          IN  /\ errMsg' = msgs
              /\ bridge' = Append(bridge, BridgeRecord(err, value, r))
              /\ calls' = calls \o r.calls
    /\ UNCHANGED <<table, wrappers, OtherVars, ExecVars>>

\* A call through pjrt_api_fn_ret_err! that the plugin fails.
BridgeApiCallFails ==
    /\ Len(bridge) < MaxBridgeCalls
    /\ \E fn \in BridgeFns, msg \in BridgeMessages :
          LET msgs == Append(errMsg, msg)
              err == ErrH(Len(msgs))
              r == ApiFnRetErr(table, msgs, fn, ArgsStruct, err, "args")
          IN  /\ errMsg' = msgs
              /\ bridge' = Append(bridge, BridgeRecord(err, "args", [res |-> r.res, calls |-> Tail(r.calls)]))
              /\ calls' = calls \o r.calls
    /\ UNCHANGED <<table, wrappers, OtherVars, ExecVars>>

\* A call through pjrt_api_fn_ret_err! that the plugin serves.
BridgeApiCallSucceeds ==
    /\ Len(bridge) < MaxBridgeCalls
    /\ \E fn \in BridgeFns :
          LET r == ApiFnRetErr(table, errMsg, fn, ArgsStruct, NullErr, "args")
          IN  /\ bridge' = Append(bridge, BridgeRecord(NullErr, "args", [res |-> r.res, calls |-> Tail(r.calls)]))
              /\ calls' = calls \o r.calls
    /\ UNCHANGED <<table, errMsg, wrappers, OtherVars, ExecVars>>

NextBridge ==
    \/ BridgeErrOrNull
    \/ BridgeErrOrError
    \/ BridgeApiCallFails
    \/ BridgeApiCallSucceeds

SpecBridge == InitBridge /\ [][NextBridge]_vars

DestroysOf(log, err) == Count(log, Call(FnErrorDestroy, err))

\* C3 (as claimed): every non-null error handle passed to err_or is destroyed
\* exactly once before err_or returns, on every return path, and a null handle
\* is never destroyed.  Stated for the tables that do provide
\* PJRT_Error_Destroy, where one destroy call is possible on every path.
C3_DestroyExactlyOnce ==
    \A i \in DOMAIN bridge :
        LET b == bridge[i]
        IN  /\ b.err = NullErr =>
                 \A j \in DOMAIN b.calls : b.calls[j].fn # FnErrorDestroy
            /\ (b.err # NullErr /\ FnErrorDestroy \in table) =>
                 DestroysOf(b.calls, b.err) = 1

Buffer(h) == [ptr |-> h]

Event(h) == [ptr |-> h]

BufferRow(d, n) == [a \in 1..n |-> Buffer(InBuf(d, a))]

BufferRows(lens) == [d \in 1..Len(lens) |-> BufferRow(d, lens[d])]

LenSeqs == UNION {[1..n -> 0..MaxArgs] : n \in 0..MaxDevices}

\* The caller-facing input shapes: (), Buffer, [Buffer; A], [[Buffer; A]; D],
\* Vec<Buffer>, Vec<Vec<Buffer>>.
Inputs ==
    {[shape |-> "unit", rows |-> <<>>]}
    \cup {[shape |-> "buffer", rows |-> BufferRows(<<1>>)]}
    \cup {[shape |-> "array", rows |-> BufferRows(<<n>>)] : n \in 0..MaxArgs}
    \cup {[shape |-> "vec", rows |-> BufferRows(<<n>>)] : n \in 0..MaxArgs}
    \cup {[shape |-> "array2d", rows |-> BufferRows([d \in 1..n |-> a])] :
             n \in 0..MaxDevices, a \in 0..MaxArgs}
    \cup {[shape |-> "vecvec", rows |-> BufferRows(l)] : l \in LenSeqs}

Ptrs(row) == [a \in 1..Len(row) |-> row[a].ptr]

Panic(what) == [tag |-> "panic", what |-> what]

\* ExecuteInputs::buffer_ptrs for each implementing type.
BufferPtrs(inp) ==
    CASE inp.shape = "unit" -> [panic |-> FALSE, ptrs |-> << <<>> >>]
      [] inp.shape \in {"buffer", "array", "vec"} ->
            [panic |-> FALSE, ptrs |-> <<Ptrs(inp.rows[1])>>]
      [] inp.shape = "array2d" ->
            [panic |-> FALSE, ptrs |-> [d \in 1..Len(inp.rows) |-> Ptrs(inp.rows[d])]]
      [] inp.shape = "vecvec" ->
            LET inner_size == {Len(inp.rows[d]) : d \in 1..Len(inp.rows)}
            IN  IF Cardinality(inner_size) = 1
                THEN [panic |-> FALSE, ptrs |-> [d \in 1..Len(inp.rows) |-> Ptrs(inp.rows[d])]]
                ELSE [panic |-> TRUE, ptrs |-> <<>>]

(***************************************************************************)
(* loaded_executable.rs: the storage handed to the execution call           *)
(***************************************************************************)
RECURSIVE Flatten(_)
Flatten(ss) == IF ss = <<>> THEN <<>> ELSE Head(ss) \o Flatten(Tail(ss))

\* One pointer-sized word of host memory as the plugin reads it.
PtrWord(blk, idx) == [kind |-> "ptr", blk |-> blk, idx |-> idx]

LenWord(n) == [kind |-> "len", blk |-> "none", idx |-> n]

\* Option<&[T]> is a two-word slice reference: data pointer, then length.
SomeSlice(blk, idx, len) == <<PtrWord(blk, idx), LenWord(len)>>

\* argument_lists: one Some(d.as_slice()) per row of input_buffers; as_ptr()
\* cast to *const *const *mut PJRT_Buffer exposes its words to the plugin.
ArgumentLists(ptrs) ==
    Flatten([d \in 1..Len(ptrs) |-> SomeSlice("input_buffers", d, Len(ptrs[d]))])

\* output_lists: vec![Some(output_inner.as_slice()); num_devices], every
\* element a reference to the one vector output_inner.
OutputLists(num_devices, num_outputs) ==
    Flatten([d \in 1..num_devices |-> SomeSlice("output_inner", 1, num_outputs)])

\* The storage a row word leads to: the host vector it points into, or
\* whatever lies at the address a length word spells.
Region(word) == IF word.kind = "ptr" THEN "inner" ELSE "wild"

\* The plugin indexes both lists as arrays of num_devices thin pointers:
\* device d's row is word d.
WildAccess(argWords, outWords, num_devices, num_args, num_outputs) ==
    \E d \in 1..num_devices :
        \/ argWords[d].kind = "len" /\ num_args > 0
        \/ outWords[d].kind = "len" /\ num_outputs > 0

Writers(outWords, num_devices, region) ==
    {d \in 1..num_devices : Region(outWords[d]) = region}

LastOf(S, order) ==
    IF order = "asc"
    THEN CHOOSE d \in S : \A e \in S : e <= d
    ELSE CHOOSE d \in S : \A e \in S : d <= e

\* Memory after a successful execution call: the plugin stored its handle
\* for device d, output o through row word d, and its event for device d
\* in slot d of device_complete_events.
PluginFill(outWords, num_devices, num_outputs, order) ==
    LET slot(region, o) ==
            IF Writers(outWords, num_devices, region) = {}
            THEN Uninit
            ELSE OutBuf(LastOf(Writers(outWords, num_devices, region), order), o)
    IN  [inner |-> [o \in 1..num_outputs |-> slot("inner", o)],
         wild |-> [o \in 1..num_outputs |-> slot("wild", o)],
         evs |-> [d \in 1..num_devices |-> Ev(d)],
         read |-> FALSE]

\* Memory as allocated: MaybeUninit slots.
Unfilled(num_devices, num_outputs) ==
    [inner |-> [o \in 1..num_outputs |-> Uninit],
     wild |-> [o \in 1..num_outputs |-> Uninit],
     evs |-> [d \in 1..num_devices |-> Uninit],
     read |-> FALSE]

\* utils::slice_to_vec2d(output_lists, rows, cols, f): f applied to the cols
\* entries behind each of the rows row pointers.
SliceToVec2d(outWords, m, rows, cols) ==
    [d \in 1..rows |-> [o \in 1..cols |-> Buffer(m[Region(outWords[d])][o])]]

\* slice::from_raw_parts(device_complete_events, num_devices) mapped to Event::wrap.
WrapEvents(m, num_devices) == [d \in 1..num_devices |-> Event(m.evs[d])]

\* call_execute with the `?` on the execution call's result missing.
CallExecuteTailUnchecked(res, outWords, m, num_devices, num_outputs) ==
    [res |-> res,
     events |-> WrapEvents(m, num_devices),
     outputs |-> SliceToVec2d(outWords, m, num_devices, num_outputs),
     read |-> TRUE]

\* call_execute from the `?` at the execution call to the wrapped result.
CallExecuteTail(res, outWords, m, num_devices, num_outputs) ==
    IF res.tag = "Err"
    THEN [res |-> res, events |-> <<>>, outputs |-> <<>>, read |-> FALSE]
    ELSE [res |-> res,
          events |-> WrapEvents(m, num_devices),
          outputs |-> SliceToVec2d(outWords, m, num_devices, num_outputs),
          read |-> TRUE]

(***************************************************************************)
(* Releases.  Each Drop issues its destroy call through                    *)
(* pjrt_api_fn_ret_err!; the plugin serves destroy calls.                  *)
(***************************************************************************)
DestroyCall(tbl, msgs, fn, h) == ApiFnRetErr(tbl, msgs, fn, h, NullErr, "unit").calls

DropExecutable(tbl, msgs, h) == DestroyCall(tbl, msgs, "PJRT_Executable_Destroy", h)

DropEvent(tbl, msgs, ev) == DestroyCall(tbl, msgs, "PJRT_Event_Destroy", ev.ptr)

DropBuffer(tbl, msgs, b) == DestroyCall(tbl, msgs, "PJRT_Buffer_Destroy", b.ptr)

DropEvents(tbl, msgs, evs) == Flatten([i \in 1..Len(evs) |-> DropEvent(tbl, msgs, evs[i])])

DropRow(tbl, msgs, row) == Flatten([i \in 1..Len(row) |-> DropBuffer(tbl, msgs, row[i])])

DropOutputs(tbl, msgs, outs) == Flatten([d \in 1..Len(outs) |-> DropRow(tbl, msgs, outs[d])])


(***************************************************************************)
(* Spec: one invocation of call_execute / execute_sync / execute           *)
(***************************************************************************)
Helpers == {"call_execute", "execute_sync", "execute"}

Res(tag, err, evs, outs) == [tag |-> tag, err |-> err, events |-> evs, outputs |-> outs]

NoResult == Res("none", NoValue, <<>>, <<>>)

\* PJRT_ExecuteOptions::new(): no send / receive callbacks, launch id 0, no
\* non-donatable inputs.
ExecuteOptionsNew ==
    [num_send_ops |-> 0, num_recv_ops |-> 0, launch_id |-> 0, num_non_donatable |-> 0]

\* `plugin` records what the execution call did and the options it carried.
NoPlugin == [exec |-> "none", order |-> "asc", events |-> <<>>, options |-> NoValue]

NoMem == [inner |-> <<>>, wild |-> <<>>, evs |-> <<>>, read |-> FALSE]

Init ==
    /\ IdleOther
    /\ table = FullTable
    /\ calls = <<>>
    /\ errMsg = <<>>
    /\ bridge = <<>>
    /\ wrappers = <<>>
    /\ pc = "idle"
    /\ helper = "none"
    /\ inputs = [shape |-> "unit", rows |-> <<>>]
    /\ plugin = NoPlugin
    /\ numOutputs = 0
    /\ mem = NoMem
    /\ events = <<>>
    /\ outputs = <<>>
    /\ live = {}
    /\ result = NoResult

\* The caller invokes one of the three entry points with some input.
Start ==
    /\ pc = "idle"
    /\ \E h \in Helpers, inp \in Inputs :
          /\ helper' = h
          /\ inputs' = inp
    /\ pc' = "executable"
    /\ UNCHANGED <<table, calls, errMsg, bridge, wrappers, OtherVars, plugin, numOutputs, mem,
                   events, outputs, live, result>>

\* self.executable(): PJRT_LoadedExecutable_GetExecutable(...).expect(...),
\* served by the plugin.
GetExecutable ==
    /\ pc = "executable"
    /\ LET r == ApiFnRetErr(table, errMsg, "PJRT_LoadedExecutable_GetExecutable",
                            ArgsStruct, NullErr, ExeHandle)
       IN  /\ calls' = calls \o r.calls
           /\ live' = {r.res.value}
    /\ pc' = "num_outputs"
    /\ UNCHANGED <<table, errMsg, bridge, wrappers, OtherVars, helper, inputs, plugin, numOutputs,
                   mem, events, outputs, result>>

\* self.executable() when the plugin reports an error: expect panics.
GetExecutableFails ==
    /\ pc = "executable"
    /\ LET msgs == Append(errMsg, MsgGet)
           r == ApiFnRetErr(table, msgs, "PJRT_LoadedExecutable_GetExecutable",
                            ArgsStruct, ErrH(Len(msgs)), ExeHandle)
       IN  /\ errMsg' = msgs
           /\ calls' = calls \o r.calls
           /\ result' = Res("panic", Panic("PJRT_LoadedExecutable_GetExecutable"), <<>>, <<>>)
    /\ pc' = "done"
    /\ UNCHANGED <<table, bridge, wrappers, OtherVars, helper, inputs, plugin, numOutputs, mem,
                   events, outputs, live>>

\* executable.num_outputs(): PJRT_Executable_NumOutputs(...).expect(...),
\* served by the plugin with some output count.
NumOutputs ==
    /\ pc = "num_outputs"
    /\ \E o \in 0..MaxOutputs :
          LET r == ApiFnRetErr(table, errMsg, "PJRT_Executable_NumOutputs", ExeHandle, NullErr, o)
          IN  /\ calls' = calls \o r.calls
              /\ numOutputs' = r.res.value
    /\ pc' = "buffer_ptrs"
    /\ UNCHANGED <<table, errMsg, bridge, wrappers, OtherVars, helper, inputs, plugin, mem, events,
                   outputs, live, result>>

\* executable.num_outputs() when the plugin reports an error: expect panics
\* and the unwinding drops `executable`.
NumOutputsFails ==
    /\ pc = "num_outputs"
    /\ LET msgs == Append(errMsg, MsgNum)
           r == ApiFnRetErr(table, msgs, "PJRT_Executable_NumOutputs", ExeHandle,
                            ErrH(Len(msgs)), 0)
       IN  /\ errMsg' = msgs
           /\ calls' = calls \o r.calls \o DropExecutable(table, msgs, ExeHandle)
           /\ result' = Res("panic", Panic("PJRT_Executable_NumOutputs"), <<>>, <<>>)
    /\ live' = {}
    /\ pc' = "done"
    /\ UNCHANGED <<table, bridge, wrappers, OtherVars, helper, inputs, plugin, numOutputs, mem,
                   events, outputs>>

\* inputs.buffer_ptrs() and input_buffers[0].len(): the assert_eq! of the
\* Vec<Vec<Buffer>> implementation and the index both panic, and the
\* unwinding drops `executable`.
MarshalInputs ==
    /\ pc = "buffer_ptrs"
    /\ LET b == BufferPtrs(inputs)
       IN  IF b.panic \/ Len(b.ptrs) = 0
           THEN /\ result' = Res("panic",
                                 Panic(IF b.panic THEN "all inner vectors must have the same length"
                                       ELSE "index out of bounds"), <<>>, <<>>)
                /\ calls' = calls \o DropExecutable(table, errMsg, ExeHandle)
                /\ live' = {}
                /\ pc' = "done"
           ELSE /\ pc' = "execute"
                /\ UNCHANGED <<result, calls, live, OtherVars>>
    /\ UNCHANGED <<table, errMsg, bridge, wrappers, OtherVars, helper, inputs, plugin, numOutputs,
                   mem, events, outputs>>

NumDevices == Len(BufferPtrs(inputs).ptrs)

NumArgs == Len(BufferPtrs(inputs).ptrs[1])

\* Lines 119-152 for one outcome of PJRT_LoadedExecutable_Execute: `err` is
\* the handle the plugin returned, `filled` the memory it left behind.
ExecuteCall(msgs, err, filled, plug) ==
    LET outWords == OutputLists(NumDevices, numOutputs)
        r == ApiFnRetErr(table, msgs, "PJRT_LoadedExecutable_Execute", ArgsStruct, err, "args")
        t == CallExecuteTail(r.res, outWords, filled, NumDevices, numOutputs)
    IN  /\ errMsg' = msgs
        /\ plugin' = plug
        /\ mem' = [filled EXCEPT !.read = t.read]
        /\ live' = {}
        /\ IF t.res.tag = "Err"
           THEN /\ calls' = calls \o r.calls \o DropEvents(table, msgs, t.events)
                               \o DropOutputs(table, msgs, t.outputs)
                               \o DropExecutable(table, msgs, ExeHandle)
                /\ result' = Res("Err", t.res, <<>>, <<>>)
                /\ events' = <<>>
                /\ outputs' = <<>>
                /\ pc' = "done"
           ELSE /\ calls' = calls \o r.calls \o DropExecutable(table, msgs, ExeHandle)
                /\ IF helper = "call_execute"
                   THEN /\ result' = Res("Ok", NoValue, t.events, t.outputs)
                        /\ events' = <<>>
                        /\ outputs' = <<>>
                        /\ pc' = "done"
                   ELSE /\ result' = result
                        /\ events' = t.events
                        /\ outputs' = t.outputs
                        /\ pc' = "wait"

\* The plugin runs the program: it fills the slots and the events, each of
\* which will resolve to success or to an error.
ExecuteSucceeds ==
    /\ pc = "execute"
    /\ \E order \in {"asc", "desc"}, evs \in [1..NumDevices -> {"ok", "err"}] :
          ExecuteCall(errMsg, NullErr,
                      PluginFill(OutputLists(NumDevices, numOutputs), NumDevices, numOutputs, order),
                      [exec |-> "ok", order |-> order, events |-> evs, options |-> ExecuteOptionsNew])
    /\ UNCHANGED <<table, bridge, wrappers, OtherVars, helper, inputs, numOutputs>>

\* The plugin reports an error and allocates nothing.
ExecuteFails ==
    /\ pc = "execute"
    /\ ExecuteCall(Append(errMsg, MsgExec), ErrH(Len(errMsg) + 1),
                   Unfilled(NumDevices, numOutputs),
                   [exec |-> "err", order |-> "asc", events |-> <<>>,
                    options |-> ExecuteOptionsNew])
    /\ UNCHANGED <<table, bridge, wrappers, OtherVars, helper, inputs, numOutputs>>

\* A row word that is a slice length sends the plugin to an address the host
\* never allocated: the access may also end the process.
ExecuteFaults ==
    /\ pc = "execute"
    /\ WildAccess(ArgumentLists(BufferPtrs(inputs).ptrs),
                  OutputLists(NumDevices, numOutputs), NumDevices, NumArgs, numOutputs)
    /\ calls' = Append(calls, Call("PJRT_LoadedExecutable_Execute", ArgsStruct))
    /\ plugin' = [exec |-> "segv", order |-> "asc", events |-> <<>>,
                  options |-> ExecuteOptionsNew]
    /\ result' = Res("segv", NoValue, <<>>, <<>>)
    /\ pc' = "done"
    /\ UNCHANGED <<table, errMsg, bridge, wrappers, OtherVars, helper, inputs, numOutputs, mem,
                   events, outputs, live>>

\* Event::wait(self): PJRT_Event_Await on the handle, then the Event is
\* released.  `err` is what the plugin's await returns.
EventWait(tbl, msgs, ev, err) ==
    LET r == ApiFnRetErr(tbl, msgs, "PJRT_Event_Await", ev.ptr, err, "unit")
    IN  [res |-> r.res, calls |-> r.calls \o DropEvent(tbl, msgs, ev)]

\* The suspended await of an Event resumes with the outcome its callback
\* delivered, then the Event is released.
EventResume(tbl, msgs, ev, err) ==
    LET r == ErrOr(tbl, msgs, err, "unit")
    IN  [res |-> r.res, calls |-> r.calls \o DropEvent(tbl, msgs, ev)]

\* The loop with the early return keeping the unconsumed events alive forever
\* (as mem::forget would).
EarlyReturnLeaksEvents(tbl, msgs, remaining, outs) == DropOutputs(tbl, msgs, outs)

\* `?` inside `for event in events`: the iterator drops the events not yet
\* reached, then `outputs` is dropped.
EarlyReturnDrops(tbl, msgs, remaining, outs) ==
    DropEvents(tbl, msgs, remaining) \o DropOutputs(tbl, msgs, outs)

\* The loop with the result of wait() ignored.
IgnoresError(res) == FALSE

\* `event.wait()?` / `event.await?`: an Err leaves the helper.
Propagates(res) == res.tag = "Err"

\* One iteration's end: the loop goes on, or the helper returns the error.
LoopStep(w, msgs) ==
    /\ errMsg' = msgs
    /\ IF Propagates(w.res)
       THEN /\ calls' = calls \o w.calls
                           \o EarlyReturnDrops(table, msgs, Tail(events), outputs)
            /\ result' = Res("Err", w.res, <<>>, <<>>)
            /\ events' = <<>>
            /\ outputs' = <<>>
            /\ pc' = "done"
       ELSE /\ calls' = calls \o w.calls
            /\ events' = Tail(events)
            /\ pc' = "wait"
            /\ UNCHANGED <<result, outputs, OtherVars>>

EventError(ev, msgs) ==
    IF plugin.events[ev.ptr.dev] = "err" THEN ErrH(Len(msgs)) ELSE NullErr

EventMsgs(ev) ==
    IF plugin.events[ev.ptr.dev] = "err"
    THEN Append(errMsg, MsgEvent(ev.ptr.dev))
    ELSE errMsg

\* execute_sync: one iteration of `for event in events { event.wait()?; }`.
ExecuteSyncWait ==
    /\ pc = "wait"
    /\ helper = "execute_sync"
    /\ events # <<>>
    /\ LET ev == Head(events)
           msgs == EventMsgs(ev)
       IN  LoopStep(EventWait(table, msgs, ev, EventError(ev, msgs)), msgs)
    /\ UNCHANGED <<table, bridge, wrappers, OtherVars, helper, inputs, plugin, numOutputs, mem, live>>

\* execute: `event.await` registers its completion callback and suspends.
ExecuteAwaitSuspend ==
    /\ pc = "wait"
    /\ helper = "execute"
    /\ events # <<>>
    /\ calls' = calls \o ApiFnRetErr(table, errMsg, "PJRT_Event_OnReady",
                                     Head(events).ptr, NullErr, "unit").calls
    /\ pc' = "suspended"
    /\ UNCHANGED <<table, errMsg, bridge, wrappers, OtherVars, helper, inputs, plugin, numOutputs,
                   mem, events, outputs, live, result>>

\* execute: the callback fired and the task resumes after `event.await`.
ExecuteAwaitResume ==
    /\ pc = "suspended"
    /\ LET ev == Head(events)
           msgs == EventMsgs(ev)
       IN  LoopStep(EventResume(table, msgs, ev, EventError(ev, msgs)), msgs)
    /\ UNCHANGED <<table, bridge, wrappers, OtherVars, helper, inputs, plugin, numOutputs, mem, live>>

\* execute: the surrounding task is cancelled while suspended; the future's
\* state (the events and the outputs) is dropped and nothing is returned.
ExecuteCancelled ==
    /\ pc = "suspended"
    /\ calls' = calls \o DropEvents(table, errMsg, events) \o DropOutputs(table, errMsg, outputs)
    /\ result' = Res("cancelled", NoValue, <<>>, <<>>)
    /\ events' = <<>>
    /\ outputs' = <<>>
    /\ pc' = "done"
    /\ UNCHANGED <<table, errMsg, bridge, wrappers, OtherVars, helper, inputs, plugin, numOutputs,
                   mem, live>>

\* execute_sync / execute: Ok(outputs) once the loop has run out of events.
ReturnOutputs ==
    /\ pc = "wait"
    /\ events = <<>>
    /\ result' = Res("Ok", NoValue, <<>>, outputs)
    /\ outputs' = <<>>
    /\ pc' = "done"
    /\ UNCHANGED <<table, calls, errMsg, bridge, wrappers, OtherVars, helper, inputs, plugin,
                   numOutputs, mem, events, live>>

\* The caller releases what it was given.
CallerDrops ==
    /\ pc = "done"
    /\ result.tag = "Ok"
    /\ calls' = calls \o DropEvents(table, errMsg, result.events)
                       \o DropOutputs(table, errMsg, result.outputs)
    /\ pc' = "released"
    /\ UNCHANGED <<table, errMsg, bridge, wrappers, OtherVars, helper, inputs, plugin, numOutputs,
                   mem, events, outputs, live, result>>

Next ==
    \/ Start
    \/ GetExecutable
    \/ GetExecutableFails
    \/ NumOutputs
    \/ NumOutputsFails
    \/ MarshalInputs
    \/ ExecuteSucceeds
    \/ ExecuteFails
    \/ ExecuteFaults
    \/ ExecuteSyncWait
    \/ ExecuteAwaitSuspend
    \/ ExecuteAwaitResume
    \/ ExecuteCancelled
    \/ ReturnOutputs
    \/ CallerDrops

Spec == Init /\ [][Next]_vars


(***************************************************************************)
(* Properties of the execution protocol                                    *)
(***************************************************************************)
Returned == pc \in {"done", "released"}

CallsOn(fns, h) == {i \in DOMAIN calls : calls[i].fn \in fns /\ calls[i].arg = h}

\* The storage behind output slot (d, o) as handed to the plugin.
SlotOf(d, o) == <<Region(OutputLists(NumDevices, numOutputs)[d]), o>>

AllSlots == (1..NumDevices) \X (1..numOutputs)

\* C1 (as claimed): a successful call_execute returns D events and D rows of
\* O Buffers, outputs[d][o] wraps the plugin's handle for device d, output o,
\* and the D x O slots handed to the plugin are pairwise distinct host
\* storage, so no handle is owned by two returned Buffers.
C1_OutputsPerDeviceDistinct ==
    /\ (helper = "call_execute" /\ pc = "done" /\ result.tag = "Ok") =>
          /\ Len(result.events) = NumDevices
          /\ Len(result.outputs) = NumDevices
          /\ \A d \in 1..NumDevices : Len(result.outputs[d]) = numOutputs
          /\ \A s \in AllSlots : result.outputs[s[1]][s[2]].ptr = OutBuf(s[1], s[2])
          /\ \A s, t \in AllSlots :
                s # t => result.outputs[s[1]][s[2]].ptr # result.outputs[t[1]][t[2]].ptr
    /\ plugin.exec # "none" =>
          /\ \A s \in AllSlots : SlotOf(s[1], s[2])[1] = "inner"
          /\ \A s, t \in AllSlots : s # t => SlotOf(s[1], s[2]) # SlotOf(t[1], t[2])

Ragged(inp) ==
    /\ inp.shape = "vecvec"
    /\ Cardinality({Len(inp.rows[d]) : d \in 1..Len(inp.rows)}) > 1

\* C2 (as claimed): a list-of-lists input with unequal inner lengths is
\* rejected as a caller-precondition error before any foreign call has been
\* issued for the invocation.
C2_RaggedRejectedBeforeForeignCall ==
    (Ragged(inputs) /\ pc = "done" /\ errMsg = <<>>) =>
        /\ result.tag = "Err"
        /\ calls = <<>>

EventFns == {"PJRT_Event_Await", "PJRT_Event_OnReady", "PJRT_Event_Destroy"}

\* C5: when execute_sync / execute returns after a successful execution
\* call, every one of the D events has been waited on or destroyed,
\* including those after the first event that resolved with an error.
C5_AllEventsConsumed ==
    (helper \in {"execute_sync", "execute"} /\ Returned /\ plugin.exec = "ok"
        /\ result.tag \in {"Ok", "Err"}) =>
        \A d \in 1..NumDevices :
            CallsOn({"PJRT_Event_Await", "PJRT_Event_Destroy"}, Ev(d)) # {}

\* C5 witness: execute has returned the error of device 1's event while the
\* events of devices 2 and 3 had not been awaited.
C5_Witness ==
    /\ helper = "execute"
    /\ pc = "done"
    /\ NumDevices = 3
    /\ plugin.exec = "ok"
    /\ plugin.events[1] = "err"
    /\ result.tag = "Err"
    /\ CallsOn({"PJRT_Event_OnReady"}, Ev(2)) = {}
    /\ CallsOn({"PJRT_Event_Destroy"}, Ev(3)) # {}

\* C6 (as claimed): when the execution call succeeded and a completion
\* event resolved to an error, the helper hands the output buffers to the
\* caller together with the failure instead of discarding them.
C6_OutputsSurviveEventFailure ==
    (helper \in {"execute_sync", "execute"} /\ pc = "done" /\ plugin.exec = "ok"
        /\ numOutputs > 0 /\ result.tag = "Err") =>
        /\ Len(result.outputs) = NumDevices
        /\ \A i \in DOMAIN calls : calls[i].fn # "PJRT_Buffer_Destroy"

\* C7: if PJRT_LoadedExecutable_Execute returns an error, the helper
\* returns that error, the slot arrays are never read, no Buffer or Event
\* wrapper exists, and no Buffer or Event call is ever issued.
C7_FailedExecuteYieldsNothing ==
    plugin.exec = "err" =>
        /\ Returned
        /\ result = Res("Err", PjrtError(MsgExec), <<>>, <<>>)
        /\ ~mem.read
        /\ events = <<>> /\ outputs = <<>>
        /\ \A i \in DOMAIN calls : calls[i].fn \notin EventFns \cup {"PJRT_Buffer_Destroy"}

\* C7 witness: a three-device, two-output execute_sync whose execution call
\* the plugin failed has returned.
C7_Witness ==
    /\ plugin.exec = "err"
    /\ helper = "execute_sync"
    /\ pc = "done"
    /\ NumDevices = 3
    /\ numOutputs = 2
    /\ CallsOn({"PJRT_LoadedExecutable_Execute"}, ArgsStruct) # {}

\* C8 (as claimed): a foreign-reported error never causes a panic; it
\* surfaces to the caller as an Err result.
C8_ForeignErrorSurfacesAsErr ==
    (pc = "done" /\ errMsg # <<>>) => result.tag = "Err"

FailingDevices == {d \in 1..NumDevices : plugin.events[d] = "err"}

FirstFailing == CHOOSE d \in FailingDevices : \A e \in FailingDevices : d <= e

\* C9: execute_sync returns Ok(outputs) only after all D events have been
\* waited on and all resolved successfully; if any event fails it never
\* returns Ok, and the error it returns is that of the first failing event
\* in device-index order.
C9_SyncOkOnlyAfterAllEvents ==
    helper = "execute_sync" =>
        /\ result.tag = "Ok" =>
              /\ plugin.exec = "ok"
              /\ FailingDevices = {}
              /\ \A d \in 1..NumDevices : CallsOn({"PJRT_Event_Await"}, Ev(d)) # {}
              /\ Len(result.outputs) = NumDevices
        /\ (plugin.exec = "ok" /\ FailingDevices # {}) =>
              /\ result.tag # "Ok"
              /\ Returned => result = Res("Err", PjrtError(MsgEvent(FirstFailing)), <<>>, <<>>)

\* C9 witness: with the events of devices 2 and 3 failing, execute_sync has
\* waited on device 1's event and returned device 2's error.
C9_Witness ==
    /\ helper = "execute_sync"
    /\ pc = "done"
    /\ plugin.exec = "ok"
    /\ FailingDevices = {2, 3}
    /\ CallsOn({"PJRT_Event_Await"}, Ev(1)) # {}
    /\ result.err = PjrtError(MsgEvent(2))


\* The handle the plugin finds at entry [d][a] of the argument matrix when it
\* reads argument_lists as an array of num_devices row pointers: word d leads
\* to a row of input_buffers, or, being a slice length, to no host storage.
PluginReadsArg(argWords, ptrs, d, a) ==
    IF argWords[d].kind = "ptr" THEN ptrs[argWords[d].idx][a] ELSE Uninit

\* D and A of the caller's input, by its shape.
ShapeDevices(inp) ==
    IF inp.shape \in {"unit", "buffer", "array", "vec"} THEN 1 ELSE Len(inp.rows)

ShapeArgs(inp) ==
    IF inp.shape = "unit" THEN 0 ELSE Len(inp.rows[1])

\* C18 (as claimed): whenever the execution call is issued it carries
\* num_devices = D and num_args = A of the caller's input, and entry [d][a]
\* of the argument matrix, read through the D row pointers, is the native
\* handle of the caller's buffer [d][a], for D > 1 as for D = 1.
C18_ArgumentMatrixAsGiven ==
    plugin.exec # "none" =>
        /\ NumDevices = ShapeDevices(inputs)
        /\ NumArgs = ShapeArgs(inputs)
        /\ \A d \in 1..ShapeDevices(inputs), a \in 1..ShapeArgs(inputs) :
              PluginReadsArg(ArgumentLists(BufferPtrs(inputs).ptrs),
                             BufferPtrs(inputs).ptrs, d, a) = inputs.rows[d][a].ptr

ExecuteCalls == Count(calls, Call("PJRT_LoadedExecutable_Execute", ArgsStruct))

\* The invocation is past the execution call's place in call_execute.
PastExecute == pc \in {"wait", "suspended", "done", "released"}

\* At most one execution call, and exactly one unless a metadata query or the
\* input shape made the helper panic before it.
OneExecuteCall ==
    /\ ExecuteCalls <= 1
    /\ (PastExecute /\ result.tag # "panic") => ExecuteCalls = 1
    /\ plugin.exec # "none" <=> ExecuteCalls = 1

\* The execution call carried an options record in which nothing is set.
DefaultOptions ==
    plugin.exec # "none" =>
        /\ plugin.options.num_send_ops = 0
        /\ plugin.options.num_recv_ops = 0
        /\ plugin.options.launch_id = 0
        /\ plugin.options.num_non_donatable = 0

\* The host storage behind the output slots handed to the plugin.
HostSlots == {SlotOf(s[1], s[2]) : s \in {t \in AllSlots : SlotOf(t[1], t[2])[1] = "inner"}}

\* D argument rows of A handles, D rows of O output slots, D event slots.
StorageSized ==
    plugin.exec # "none" =>
        /\ Len(BufferPtrs(inputs).ptrs) = ShapeDevices(inputs)
        /\ \A d \in 1..ShapeDevices(inputs) :
              Len(BufferPtrs(inputs).ptrs[d]) = ShapeArgs(inputs)
        /\ Cardinality(HostSlots) = NumDevices * numOutputs
        /\ plugin.exec \in {"ok", "err"} => Len(mem.evs) = NumDevices

\* The slots are read back as the plugin left them.
ReadBackUntouched ==
    (plugin.exec = "ok" /\ mem.read) =>
        mem = [PluginFill(OutputLists(NumDevices, numOutputs), NumDevices, numOutputs,
                          plugin.order) EXCEPT !.read = TRUE]

\* C21 (as claimed): each call_execute issues at most one execution call,
\* exactly one when the metadata queries succeed and the input shape is valid,
\* always with default options, and the argument rows, the D rows of O output
\* slots and the D event slots handed to it are allocated at that size and
\* are read back as the plugin left them.
C21_OneExecuteOnSizedStorage ==
    /\ OneExecuteCall
    /\ DefaultOptions
    /\ StorageSized
    /\ ReadBackUntouched

(***************************************************************************)
(* SpecLife: Executable, LoadedExecutable and SerializedExecutable         *)
(* wrappers from creation to release.  A wrapper is used only while it is  *)
(* owned (moves and borrows end with the owner), and `hist` records, per   *)
(* native handle, the foreign calls and the reads of plugin-owned bytes.   *)
(***************************************************************************)
Wrapper(kind, n) == [kind |-> kind, ptr |-> Handle(kind, 0, n), alive |-> TRUE, hist |-> <<>>]

FnDeleter == "serialized_executable_deleter"

ReadBytes == "slice::from_raw_parts(data_ptr, data_len)"

ReleaseFn(kind) ==
    CASE kind = "Executable" -> "PJRT_Executable_Destroy"
      [] kind = "LoadedExecutable" -> "PJRT_LoadedExecutable_Destroy"
      [] kind = "SerializedExecutable" -> FnDeleter

QueryFn(kind) ==
    CASE kind = "Executable" -> "PJRT_Executable_Name"
      [] kind = "LoadedExecutable" -> "PJRT_LoadedExecutable_Fingerprint"

\* A wrapper type without a Drop implementation.
DropWrapperForgets(tbl, msgs, w) == <<>>

\* Drop for Executable / LoadedExecutable / SerializedExecutable.
DropWrapper(tbl, msgs, w) ==
    IF w.kind = "SerializedExecutable"
    THEN <<Call(FnDeleter, w.ptr)>>
    ELSE DestroyCall(tbl, msgs, ReleaseFn(w.kind), w.ptr)

InitLife ==
    /\ IdleOther
    /\ table = FullTable
    /\ calls = <<>>
    /\ errMsg = <<>>
    /\ bridge = <<>>
    /\ wrappers = <<Wrapper("LoadedExecutable", 1)>>
    /\ IdleExec

Usable(i) ==
    /\ i \in DOMAIN wrappers
    /\ wrappers[i].alive
    /\ Len(wrappers[i].hist) < MaxHist

Did(i, cs) == [wrappers EXCEPT ![i].hist = @ \o cs]

\* Executable::name / LoadedExecutable::fingerprint: a read-only query.
LifeQuery ==
    /\ \E i \in DOMAIN wrappers :
          /\ Usable(i)
          /\ wrappers[i].kind \in {"Executable", "LoadedExecutable"}
          /\ wrappers' = Did(i, ApiFnRetErr(table, errMsg, QueryFn(wrappers[i].kind),
                                            wrappers[i].ptr, NullErr, "args").calls)
    /\ UNCHANGED <<table, calls, errMsg, bridge, ExecVars, OtherVars>>

\* LoadedExecutable::delete.
LifeDelete ==
    /\ \E i \in DOMAIN wrappers :
          /\ Usable(i)
          /\ wrappers[i].kind = "LoadedExecutable"
          /\ wrappers' = Did(i, ApiFnRetErr(table, errMsg, "PJRT_LoadedExecutable_Delete",
                                            wrappers[i].ptr, NullErr, "args").calls)
    /\ UNCHANGED <<table, calls, errMsg, bridge, ExecVars, OtherVars>>

\* LoadedExecutable::executable: the plugin hands out a new executable handle.
LifeGetExecutable ==
    /\ Len(wrappers) < MaxWrappers
    /\ \E i \in DOMAIN wrappers :
          /\ Usable(i)
          /\ wrappers[i].kind = "LoadedExecutable"
          /\ wrappers' = Append(Did(i, ApiFnRetErr(table, errMsg,
                                       "PJRT_LoadedExecutable_GetExecutable",
                                       wrappers[i].ptr, NullErr, "args").calls),
                                Wrapper("Executable", Len(wrappers) + 1))
    /\ UNCHANGED <<table, calls, errMsg, bridge, ExecVars, OtherVars>>

\* Executable::serialize: the plugin hands out a blob and its deleter.
LifeSerialize ==
    /\ Len(wrappers) < MaxWrappers
    /\ \E i \in DOMAIN wrappers :
          /\ Usable(i)
          /\ wrappers[i].kind = "Executable"
          /\ wrappers' = Append(Did(i, ApiFnRetErr(table, errMsg, "PJRT_Executable_Serialize",
                                       wrappers[i].ptr, NullErr, "args").calls),
                                Wrapper("SerializedExecutable", Len(wrappers) + 1))
    /\ UNCHANGED <<table, calls, errMsg, bridge, ExecVars, OtherVars>>

\* SerializedExecutable::bytes and a read of the slice, which borrows the wrapper.
LifeBytes ==
    /\ \E i \in DOMAIN wrappers :
          /\ Usable(i)
          /\ wrappers[i].kind = "SerializedExecutable"
          /\ wrappers' = Did(i, <<Call(ReadBytes, wrappers[i].ptr)>>)
    /\ UNCHANGED <<table, calls, errMsg, bridge, ExecVars, OtherVars>>

\* The owner releases the wrapper.
LifeDrop ==
    /\ \E i \in DOMAIN wrappers :
          /\ wrappers[i].alive
          /\ wrappers' = [Did(i, DropWrapper(table, errMsg, wrappers[i])) EXCEPT ![i].alive = FALSE]
    /\ UNCHANGED <<table, calls, errMsg, bridge, ExecVars, OtherVars>>

NextLife ==
    \/ LifeQuery
    \/ LifeDelete
    \/ LifeGetExecutable
    \/ LifeSerialize
    \/ LifeBytes
    \/ LifeDrop

SpecLife == InitLife /\ [][NextLife]_vars

Releases(w) == {j \in DOMAIN w.hist : w.hist[j].fn = ReleaseFn(w.kind)}

\* C10: the matching foreign release is invoked on a wrapper's handle exactly
\* once, at the wrapper's release and not earlier, whatever delete(), queries
\* or bytes() reads came before, always on the wrapper's own handle, and the
\* serialized bytes are never read after the deleter has run.
C10_ReleasedExactlyOnceAtDrop ==
    \A i \in DOMAIN wrappers :
        LET w == wrappers[i]
        IN  /\ w.alive => Releases(w) = {}
            /\ ~w.alive => Releases(w) = {Len(w.hist)}
            /\ \A j \in DOMAIN w.hist : w.hist[j].arg = w.ptr
            /\ \A j, k \in DOMAIN w.hist :
                  (w.hist[j].fn = FnDeleter /\ w.hist[k].fn = ReadBytes) => k < j

\* C10 witness: a LoadedExecutable released after delete(), an Executable
\* released after serialize(), and a SerializedExecutable released after a
\* bytes() read.
C10_Witness ==
    /\ Len(wrappers) = 3
    /\ \A i \in DOMAIN wrappers : ~wrappers[i].alive
    /\ \E j \in DOMAIN wrappers[1].hist : wrappers[1].hist[j].fn = "PJRT_LoadedExecutable_Delete"
    /\ wrappers[2].kind = "Executable"
    /\ wrappers[3].kind = "SerializedExecutable"
    /\ wrappers[3].hist = <<Call(ReadBytes, wrappers[3].ptr), Call(FnDeleter, wrappers[3].ptr)>>

(***************************************************************************)
(* SpecKv: api.rs create_client / create_client_with and the key-value     *)
(* store whose address is handed to the plugin as the user argument of     *)
(* the kv_get and kv_put callbacks.                                        *)
(***************************************************************************)
MaxStores == 2
MaxClients == 2

KvKeys == {"k"}
KvVals == {"a", "b"}
KvAbsent == "absent"

\* The address of a caller's store: `kv_store as *const _ as *mut _`.
StoreAddr(s) == s
NullArg == 0

ClientHandle(n) == Handle("client", 0, n)

\* The caller's Box<dyn KeyValueStore> number s, as long as it is not dropped.
KvStore == [alive |-> TRUE, data |-> [k \in KvKeys |-> KvAbsent]]

\* PJRT_Client_Create_Args as create_client fills it: no callback registered.
CreateClientArgs == [kv_get_user_arg |-> NullArg, kv_put_user_arg |-> NullArg]

\* PJRT_Client_Create_Args as create_client_with fills it.
CreateClientWithArgs(kv_store) ==
    [kv_get_user_arg |-> StoreAddr(kv_store), kv_put_user_arg |-> StoreAddr(kv_store)]

\* Client::new(self, args.client): the wrapper receives the api and the native
\* handle only.  `regd` is the plugin's side: the user argument it retained.
ClientNew(ptr, args) ==
    [ptr |-> ptr, alive |-> TRUE, regd |-> args.kv_get_user_arg]

InitKv ==
    /\ table = FullTable
    /\ calls = <<>>
    /\ errMsg = <<Boom>>
    /\ bridge = <<>>
    /\ wrappers = <<>>
    /\ IdleExec
    /\ codec = [idle |-> TRUE]
    /\ query = [idle |-> TRUE]
    /\ ctor = [idle |-> TRUE]
    /\ kv = [stores |-> [s \in 1..MaxStores |-> KvStore],
             clients |-> <<>>,
             errs |-> 0,
             cb |-> "none"]

\* The shared body of create_client and create_client_with: the foreign call
\* through the bridge, then Client::new on the handle the plugin stored.
ClientCreate(tbl, msgs, args, err, n) ==
    LET r == ApiFnRetErr(tbl, msgs, "PJRT_Client_Create", ArgsStruct, err, ClientHandle(n))
    IN  [res |-> IF r.res.tag = "Ok" THEN Ok(ClientNew(r.res.value, args)) ELSE r.res,
         calls |-> r.calls]

KvAfterCreate(r) ==
    IF r.res.tag = "Ok"
    THEN [kv EXCEPT !.clients = Append(@, r.res.value)]
    ELSE [kv EXCEPT !.errs = @ + 1]

\* create_client succeeds or fails.
KvCreateClient ==
    /\ Len(kv.clients) + kv.errs < MaxClients
    /\ \E err \in {NullErr, ErrH(1)} :
          LET r == ClientCreate(table, errMsg, CreateClientArgs, err, Len(kv.clients) + 1)
          IN  /\ calls' = calls \o r.calls
              /\ kv' = KvAfterCreate(r)
    /\ UNCHANGED <<table, errMsg, bridge, wrappers, ExecVars, codec, query, ctor>>

\* create_client_with(options, &kv_store) on a store the caller holds.
KvCreateClientWith ==
    /\ Len(kv.clients) + kv.errs < MaxClients
    /\ \E s \in 1..MaxStores, err \in {NullErr, ErrH(1)} :
          LET r == ClientCreate(table, errMsg, CreateClientWithArgs(s), err,
                                Len(kv.clients) + 1)
          IN  /\ kv.stores[s].alive
              /\ calls' = calls \o r.calls
              /\ kv' = KvAfterCreate(r)
    /\ UNCHANGED <<table, errMsg, bridge, wrappers, ExecVars, codec, query, ctor>>

\* The caller's store goes out of scope; the borrow taken by
\* create_client_with ended when that call returned.
KvDropStore ==
    /\ \E s \in 1..MaxStores :
          /\ kv.stores[s].alive
          /\ kv' = [kv EXCEPT !.stores[s].alive = FALSE]
    /\ UNCHANGED <<table, calls, errMsg, bridge, wrappers, ExecVars, codec, query, ctor>>

\* The plugin invokes kv_get_callback with the user argument it retained.
KvGetCallback ==
    /\ \E c \in DOMAIN kv.clients, k \in KvKeys :
          /\ kv.clients[c].alive
          /\ kv.clients[c].regd # NullArg
          /\ IF kv.stores[kv.clients[c].regd].alive
             THEN kv' = [kv EXCEPT !.cb = "served"]
             ELSE \E o \in {"fault", "garbage"} : kv' = [kv EXCEPT !.cb = o]
    /\ UNCHANGED <<table, calls, errMsg, bridge, wrappers, ExecVars, codec, query, ctor>>

\* The plugin invokes kv_put_callback with the user argument it retained.
KvPutCallback ==
    /\ \E c \in DOMAIN kv.clients, k \in KvKeys, v \in KvVals :
          /\ kv.clients[c].alive
          /\ kv.clients[c].regd # NullArg
          /\ IF kv.stores[kv.clients[c].regd].alive
             THEN kv' = [kv EXCEPT !.stores[kv.clients[c].regd].data[k] = v,
                                   !.cb = "served"]
             ELSE \E o \in {"fault", "garbage"} : kv' = [kv EXCEPT !.cb = o]
    /\ UNCHANGED <<table, calls, errMsg, bridge, wrappers, ExecVars, codec, query, ctor>>

\* The Client is dropped: its native handle is destroyed.
KvDropClient ==
    /\ \E c \in DOMAIN kv.clients :
          /\ kv.clients[c].alive
          /\ kv' = [kv EXCEPT !.clients[c].alive = FALSE]
          /\ calls' = calls \o DestroyCall(table, errMsg, "PJRT_Client_Destroy",
                                           kv.clients[c].ptr)
    /\ UNCHANGED <<table, errMsg, bridge, wrappers, ExecVars, codec, query, ctor>>

NextKv ==
    \/ KvCreateClient
    \/ KvCreateClientWith
    \/ KvDropStore
    \/ KvGetCallback
    \/ KvPutCallback
    \/ KvDropClient

SpecKv == InitKv /\ [][NextKv]_vars

\* C11: while a Client created by create_client_with is alive, the store whose
\* address was registered as the callbacks' user argument has not been
\* released, so no callback can be entered with a dangling address.
C11_StoreAliveWhileClientAlive ==
    /\ kv.cb \in {"none", "served"}
    /\ \A c \in DOMAIN kv.clients :
          (kv.clients[c].alive /\ kv.clients[c].regd # NullArg)
              => kv.stores[kv.clients[c].regd].alive

(***************************************************************************)
(* SpecLayout: memory_layout.rs, the conversions between the host's        *)
(* MemoryLayout and the foreign record PJRT_Buffer_MemoryLayout.           *)
(***************************************************************************)
MaxLen == 2

\* Entries of the layout sequences (i64 and usize alike).
LayoutVals == {1, 2}

\* What a read past the end of an allocation may return.
Garbage == 7

SeqsOf(S, n) == UNION {[1..k -> S] : k \in 0..n}

LayoutSeqs == SeqsOf(LayoutVals, MaxLen)

\* Option<Vec<_>>.
None == [some |-> FALSE, val |-> <<>>]
Some(v) == [some |-> TRUE, val |-> v]
Options == {None} \cup {Some(v) : v \in LayoutSeqs}

\* MemoryLayoutType as u32.
TiledTag == 0
StridesTag == 1
\* Tag values a record may carry: the two known ones and two unknown ones.
Tags == {TiledTag, StridesTag, 2, 2147483647}

MemoryLayoutTiled(minor_to_major, tile_dims, tile_dim_sizes) ==
    [kind |-> "Tiled", minor_to_major |-> minor_to_major,
     tile_dims |-> tile_dims, tile_dim_sizes |-> tile_dim_sizes]

MemoryLayoutStrides(byte_strides) == [kind |-> "Strides", byte_strides |-> byte_strides]

\* MemoryLayout::from_tiled.
FromTiled(minor_to_major, tile_dims, tile_dim_sizes) ==
    MemoryLayoutTiled(minor_to_major, tile_dims, tile_dim_sizes)

\* MemoryLayout::from_strides.
FromStrides(byte_strides) == MemoryLayoutStrides(byte_strides)

\* A raw pointer: null, or the start of an allocation holding `mem`.
NullPtr == [null |-> TRUE, mem |-> <<>>]
AsPtr(v) == [null |-> FALSE, mem |-> v]

\* PJRT_Buffer_MemoryLayout::new(): a zeroed record.  The union is spelled
\* by the fields of its larger member, tiled; the strides member overlays the
\* first two of them.
NewLayoutRecord ==
    [type_ |-> 0, minor_to_major |-> NullPtr, minor_to_major_size |-> 0,
     tile_dims |-> NullPtr, tile_dim_sizes |-> NullPtr, num_tiles |-> 0]

StridesView(rec) ==
    [byte_strides |-> rec.minor_to_major, num_byte_strides |-> rec.minor_to_major_size]

\* From<&MemoryLayoutTiled> for PJRT_Buffer_MemoryLayout.
EncodeTiled(layout) ==
    LET r1 == [NewLayoutRecord EXCEPT !.type_ = TiledTag,
                                      !.minor_to_major = AsPtr(layout.minor_to_major),
                                      !.minor_to_major_size = Len(layout.minor_to_major)]
        r2 == IF layout.tile_dims.some
              THEN [r1 EXCEPT !.tile_dims = AsPtr(layout.tile_dims.val),
                              !.num_tiles = Len(layout.tile_dims.val)]
              ELSE r1
    IN  IF layout.tile_dim_sizes.some
        THEN [r2 EXCEPT !.tile_dim_sizes = AsPtr(layout.tile_dim_sizes.val)]
        ELSE r2

\* From<&MemoryLayoutStrides> for PJRT_Buffer_MemoryLayout.
EncodeStrides(layout) ==
    [NewLayoutRecord EXCEPT !.type_ = StridesTag,
                            !.minor_to_major = AsPtr(layout.byte_strides),
                            !.minor_to_major_size = Len(layout.byte_strides)]

\* From<&MemoryLayout> for PJRT_Buffer_MemoryLayout.
Encode(layout) ==
    IF layout.kind = "Tiled" THEN EncodeTiled(layout) ELSE EncodeStrides(layout)

InvalidMemoryLayoutType(value) ==
    [tag |-> "Err", kind |-> "InvalidMemoryLayoutType", value |-> value]

NullPointer == [tag |-> "Err", kind |-> "NullPointer"]

Fault == [tag |-> "fault"]

MemoryLayoutTypeTryFromLenient(value) ==
    IF value = TiledTag THEN Ok("Tiled") ELSE Ok("Strides")

\* TryFrom<u32> for MemoryLayoutType.
MemoryLayoutTypeTryFrom(value) ==
    IF value = TiledTag THEN Ok("Tiled")
    ELSE IF value = StridesTag THEN Ok("Strides")
    ELSE InvalidMemoryLayoutType(value)

\* std::slice::from_raw_parts(ptr, n).to_vec(): the possible outcomes.  Inside
\* the allocation the read returns its first n entries; a read through a null
\* pointer or past the end of the allocation is undefined: it faults or
\* returns whatever lies there.
FromRawParts(ptr, n) ==
    IF ~ptr.null /\ n <= Len(ptr.mem)
    THEN {Ok(SubSeq(ptr.mem, 1, n))}
    ELSE {Fault} \cup {Ok(ptr.mem \o [i \in 1..(n - Len(ptr.mem)) |-> Garbage])}

\* TryFrom<&PJRT_Buffer_MemoryLayout> for MemoryLayout: the possible outcomes,
\* each with the union fields the conversion read.
TryFromRef(layout) ==
    LET layout_ty == MemoryLayoutTypeTryFrom(layout.type_)
    IN  IF layout_ty.tag # "Ok"
        THEN {[res |-> layout_ty, reads |-> {}]}
        ELSE IF layout_ty.value = "Tiled"
        THEN LET m2ms == IF layout.minor_to_major_size = 0
                         THEN {Ok(<<>>)}
                         ELSE FromRawParts(layout.minor_to_major, layout.minor_to_major_size)
                 rd1 == {"minor_to_major_size"} \cup
                        (IF layout.minor_to_major_size = 0 THEN {} ELSE {"minor_to_major"})
             IN  IF layout.num_tiles = 0
                 THEN {[res |-> IF m.tag = "Ok"
                                THEN Ok(MemoryLayoutTiled(m.value, None, None)) ELSE m,
                        reads |-> rd1 \cup {"num_tiles"}] : m \in m2ms}
                 ELSE {[res |-> IF m.tag = "Ok" /\ td.tag = "Ok" /\ tds.tag = "Ok"
                                THEN Ok(MemoryLayoutTiled(m.value, Some(td.value),
                                                          Some(tds.value)))
                                ELSE Fault,
                        reads |-> rd1 \cup {"num_tiles", "tile_dims", "tile_dim_sizes"}] :
                            m \in m2ms,
                            td \in FromRawParts(layout.tile_dims, layout.num_tiles),
                            tds \in FromRawParts(layout.tile_dim_sizes, layout.num_tiles)}
        ELSE LET v == StridesView(layout)
             IN  {[res |-> IF b.tag = "Ok" THEN Ok(MemoryLayoutStrides(b.value)) ELSE b,
                   reads |-> {"byte_strides", "num_byte_strides"}] :
                      b \in FromRawParts(v.byte_strides, v.num_byte_strides)}

\* A *mut PJRT_Buffer_MemoryLayout: null, or the address of a record.
NullRecordPtr == [null |-> TRUE, rec |-> NewLayoutRecord]
RecordPtr(rec) == [null |-> FALSE, rec |-> rec]

\* TryFrom<*mut PJRT_Buffer_MemoryLayout> for MemoryLayout.
TryFromPtr(layout) ==
    IF layout.null
    THEN {[res |-> NullPointer, reads |-> {}]}
    ELSE TryFromRef(layout.rec)

\* The inputs: the arguments of the two constructors, and the record pointers
\* a plugin may hand back (any tag over the payload of some encoded layout).
TiledArgs ==
    {[ctor |-> "from_tiled", minor_to_major |-> m, tile_dims |-> td, tile_dim_sizes |-> tds] :
        m \in LayoutSeqs, td \in Options, tds \in Options}

StridesArgs == {[ctor |-> "from_strides", byte_strides |-> b] : b \in LayoutSeqs}

PluginPayloads ==
    {Encode(FromStrides(<<1, 2>>)), Encode(FromTiled(<<1>>, Some(<<2>>), Some(<<1>>))),
     Encode(FromTiled(<<>>, None, None))}

PluginArgs ==
    {[ctor |-> "plugin", ptr |-> NullRecordPtr]} \cup
    {[ctor |-> "plugin", ptr |-> RecordPtr([p EXCEPT !.type_ = t])] :
        p \in PluginPayloads, t \in Tags}

NoLayout == [kind |-> "none"]

InitLayout ==
    /\ table = FullTable
    /\ calls = <<>>
    /\ errMsg = <<>>
    /\ bridge = <<>>
    /\ wrappers = <<>>
    /\ IdleExec
    /\ kv = [idle |-> TRUE]
    /\ query = [idle |-> TRUE]
    /\ ctor = [idle |-> TRUE]
    /\ \E a \in TiledArgs \cup StridesArgs \cup PluginArgs :
          codec = [phase |-> "args", args |-> a, layout |-> NoLayout,
                   rec |-> NewLayoutRecord, out |-> NoValue, reads |-> {}]

LayoutUnchanged ==
    UNCHANGED <<table, calls, errMsg, bridge, wrappers, ExecVars, kv, query, ctor>>

LayoutFromTiled ==
    /\ codec.phase = "args"
    /\ codec.args.ctor = "from_tiled"
    /\ codec' = [codec EXCEPT !.phase = "host",
                              !.layout = FromTiled(codec.args.minor_to_major,
                                                   codec.args.tile_dims,
                                                   codec.args.tile_dim_sizes)]
    /\ LayoutUnchanged

LayoutFromStrides ==
    /\ codec.phase = "args"
    /\ codec.args.ctor = "from_strides"
    /\ codec' = [codec EXCEPT !.phase = "host",
                              !.layout = FromStrides(codec.args.byte_strides)]
    /\ LayoutUnchanged

LayoutEncode ==
    /\ codec.phase = "host"
    /\ codec' = [codec EXCEPT !.phase = "foreign", !.rec = Encode(codec.layout)]
    /\ LayoutUnchanged

\* The record just encoded is converted back while its backing storage lives.
LayoutDecode ==
    /\ codec.phase = "foreign"
    /\ \E o \in TryFromRef(codec.rec) :
          codec' = [codec EXCEPT !.phase = "decoded", !.out = o.res, !.reads = o.reads]
    /\ LayoutUnchanged

\* A record pointer returned by the plugin is converted.
LayoutDecodePtr ==
    /\ codec.phase = "args"
    /\ codec.args.ctor = "plugin"
    /\ \E o \in TryFromPtr(codec.args.ptr) :
          codec' = [codec EXCEPT !.phase = "decoded", !.rec = codec.args.ptr.rec,
                                 !.out = o.res, !.reads = o.reads]
    /\ LayoutUnchanged

NextLayout ==
    \/ LayoutFromTiled
    \/ LayoutFromStrides
    \/ LayoutEncode
    \/ LayoutDecode
    \/ LayoutDecodePtr

SpecLayout == InitLayout /\ [][NextLayout]_vars

PartialTiling(l) ==
    l.kind = "Tiled" /\ (l.tile_dims.some # l.tile_dim_sizes.some)

\* C12: every Tiled layout that from_tiled created or the encoder accepted has
\* tile_dims and tile_dim_sizes both present or both absent; no foreign record
\* is produced from a layout with exactly one of them.
C12_TileFieldsTogether ==
    /\ ~PartialTiling(codec.layout)
    /\ (codec.args.ctor = "from_tiled"
        /\ codec.args.tile_dims.some # codec.args.tile_dim_sizes.some)
           => codec.phase \notin {"foreign", "decoded"}

RoundTripDomain(l) ==
    l.kind = "Strides" \/ (l.kind = "Tiled" /\ ~PartialTiling(l))

\* C13: decoding the record encoded from a layout L (Strides, or Tiled with
\* the tile fields both absent or both present) yields Ok(L).
C13_DecodeEncodeIdentity ==
    (codec.phase = "decoded" /\ RoundTripDomain(codec.layout))
        => codec.out = Ok(codec.layout)

\* C14: converting a null record pointer returns the null-pointer error, and
\* converting a record whose type tag is neither Tiled nor Strides returns
\* the unrecognized-variant error carrying that tag; in both cases no field
\* of the union is read and nothing panics or faults.
C14_UnknownTagAndNullAreErrors ==
    (codec.phase = "decoded" /\ codec.args.ctor = "plugin") =>
        /\ codec.args.ptr.null => (codec.out = NullPointer /\ codec.reads = {})
        /\ (~codec.args.ptr.null /\ codec.args.ptr.rec.type_ \notin {TiledTag, StridesTag})
              => /\ codec.out = InvalidMemoryLayoutType(codec.args.ptr.rec.type_)
                 /\ codec.reads = {}

\* C14 witness: a record carrying a large unknown tag has been converted.
C14_Witness ==
    /\ codec.phase = "decoded"
    /\ codec.args.ctor = "plugin"
    /\ ~codec.args.ptr.null
    /\ codec.args.ptr.rec.type_ = 2147483647
    /\ codec.out = InvalidMemoryLayoutType(2147483647)

(***************************************************************************)
(* SpecWrap: the constructors Api::new, Executable::new and                *)
(* LoadedExecutable::wrap on the handles a plugin hands over, and the      *)
(* release of the wrappers they build.                                     *)
(***************************************************************************)
NullHandle == Handle("null", 0, 0)

FnPluginInitialize == "PJRT_Plugin_Initialize"

WrapTable == FullTable \cup {FnPluginInitialize}

AssertNothing(ptr) == TRUE

\* assert!(!ptr.is_null()).
AssertNonNull(ptr) == ptr # NullHandle

AssertionFailed == Panic("assertion failed: !ptr.is_null()")

Built(kind, ptr, hist) == Ok([kind |-> kind, ptr |-> ptr, alive |-> TRUE, hist |-> hist])

\* Executable::new.
ExecutableNew(ptr) ==
    IF AssertNonNull(ptr) THEN Built("Executable", ptr, <<>>) ELSE AssertionFailed

\* LoadedExecutable::wrap.
LoadedExecutableWrap(ptr) ==
    IF AssertNonNull(ptr) THEN Built("LoadedExecutable", ptr, <<>>) ELSE AssertionFailed

\* Api::new: the assertion, then PJRT_Plugin_Initialize(..).expect(..).
ApiNew(tbl, msgs, ptr, err) ==
    IF AssertNonNull(ptr)
    THEN LET r == ApiFnRetErr(tbl, msgs, FnPluginInitialize, ArgsStruct, err, "args")
         IN  IF r.res.tag = "Ok"
             THEN Built("Api", ptr, r.calls)
             ELSE Panic(FnPluginInitialize)
    ELSE AssertionFailed

\* The handles a plugin may hand to constructor number n.
OfferedHandles(kind, n) == {NullHandle, Handle(kind, 0, n)}

InitWrap ==
    /\ table = WrapTable
    /\ calls = <<>>
    /\ errMsg = <<Boom>>
    /\ bridge = <<>>
    /\ wrappers = <<>>
    /\ IdleExec
    /\ kv = [idle |-> TRUE]
    /\ codec = [idle |-> TRUE]
    /\ query = [idle |-> TRUE]
    /\ ctor = [aborted |-> FALSE, offered |-> Uninit, before |-> 0]

WrapUnchanged == UNCHANGED <<table, calls, errMsg, bridge, ExecVars, kv, codec, query>>

\* The constructor's outcome: a new wrapper, or the process aborts.
Constructed(ptr, r) ==
    /\ wrappers' = IF r.tag = "Ok" THEN Append(wrappers, r.value) ELSE wrappers
    /\ ctor' = [aborted |-> r.tag # "Ok", offered |-> ptr, before |-> Len(wrappers)]

WrapApiNew ==
    /\ ~ctor.aborted
    /\ Len(wrappers) < MaxWrappers
    /\ \E ptr \in OfferedHandles("Api", Len(wrappers) + 1), err \in {NullErr, ErrH(1)} :
          Constructed(ptr, ApiNew(table, errMsg, ptr, err))
    /\ WrapUnchanged

WrapExecutableNew ==
    /\ ~ctor.aborted
    /\ Len(wrappers) < MaxWrappers
    /\ \E ptr \in OfferedHandles("Executable", Len(wrappers) + 1) :
          Constructed(ptr, ExecutableNew(ptr))
    /\ WrapUnchanged

WrapLoadedExecutableWrap ==
    /\ ~ctor.aborted
    /\ Len(wrappers) < MaxWrappers
    /\ \E ptr \in OfferedHandles("LoadedExecutable", Len(wrappers) + 1) :
          Constructed(ptr, LoadedExecutableWrap(ptr))
    /\ WrapUnchanged

\* A wrapper is released, by its owner or while a panic unwinds.  Api has no
\* Drop implementation.
WrapDrop ==
    /\ \E i \in DOMAIN wrappers :
          /\ wrappers[i].alive
          /\ wrappers' = [wrappers EXCEPT
                ![i].alive = FALSE,
                ![i].hist = @ \o (IF wrappers[i].kind = "Api" THEN <<>>
                                  ELSE DropWrapper(table, errMsg, wrappers[i]))]
    /\ UNCHANGED ctor
    /\ WrapUnchanged

NextWrap ==
    \/ WrapApiNew
    \/ WrapExecutableNew
    \/ WrapLoadedExecutableWrap
    \/ WrapDrop

SpecWrap == InitWrap /\ [][NextWrap]_vars

\* C16: a constructor offered a null handle aborts and leaves no new wrapper
\* behind; every wrapper, live or released, holds a non-null handle, and no
\* call, a destroy in particular, is ever issued on a null handle.
C16_NullHandleAborts ==
    /\ ctor.offered = NullHandle => (ctor.aborted /\ Len(wrappers) = ctor.before)
    /\ \A i \in DOMAIN wrappers :
          /\ wrappers[i].ptr # NullHandle
          /\ \A j \in DOMAIN wrappers[i].hist : wrappers[i].hist[j].arg # NullHandle

\* C16 witness: after an Executable was built and released, a constructor was
\* offered a null handle and the process aborted.
C16_Witness ==
    /\ ctor.aborted
    /\ ctor.offered = NullHandle
    /\ \E i \in DOMAIN wrappers :
          /\ ~wrappers[i].alive
          /\ wrappers[i].hist = <<Call("PJRT_Executable_Destroy", wrappers[i].ptr)>>

(***************************************************************************)
(* SpecQuery: executable.rs, the metadata queries of an Executable.  Each  *)
(* action is one query; what the plugin answers is drawn by the action.    *)
(***************************************************************************)
MaxTypes == 2
MaxRank == 2
MaxCode == 2

FnOutputElementTypes == "PJRT_Executable_OutputElementTypes"
FnOutputDimensions == "PJRT_Executable_OutputDimensions"
FnOptimizedProgram == "PJRT_Executable_OptimizedProgram"

\* The function table of SpecQuery.
QueryTable == FullTable \cup {FnOutputElementTypes, FnOutputDimensions, FnOptimizedProgram}

\* Element type codes the plugin may report; the last is in no known set.
TypeCodes == {1, 2, 99}

InvalidPrimitiveType(code) ==
    [tag |-> "Err", kind |-> "InvalidPrimitiveType", value |-> code]

\* PrimitiveType::try_from(u32).
PrimitiveTypeTryFrom(code) ==
    CASE code = 1 -> Ok("Pred")
      [] code = 2 -> Ok("S8")
      [] OTHER -> InvalidPrimitiveType(code)

\* A query's outcome that is no Result: the plain value returned.
Value(v) == [tag |-> "value", value |-> v]

\* Executable::output_primitive_types.
OutputPrimitiveTypes(tbl, msgs, ptr, err, plug) ==
    LET r == ApiFnRetErr(tbl, msgs, FnOutputElementTypes, ptr, err, plug)
    IN  IF r.res.tag # "Ok"
        THEN [res |-> Panic(FnOutputElementTypes), calls |-> r.calls]
        ELSE LET args == r.res.value
                 s == SubSeq(args.output_types, 1, args.num_output_types)
                 t == [i \in DOMAIN s |-> PrimitiveTypeTryFrom(s[i])]
             IN  [res |-> IF \E i \in DOMAIN t : t[i].tag # "Ok"
                          THEN Panic("PrimitiveType")
                          ELSE Value([i \in DOMAIN t |-> t[i].value]),
                  calls |-> r.calls]

\* What the plugin stores for PJRT_Executable_OutputElementTypes.
ElementTypesAnswers ==
    {[output_types |-> s, num_output_types |-> Len(s)] : s \in SeqsOf(TypeCodes, MaxTypes)}

QueryErrs == {NullErr, ErrH(1)}

InitQuery ==
    /\ table = QueryTable
    /\ calls = <<>>
    /\ errMsg = <<Boom>>
    /\ bridge = <<>>
    /\ wrappers = <<>>
    /\ IdleExec
    /\ kv = [idle |-> TRUE]
    /\ codec = [idle |-> TRUE]
    /\ ctor = [idle |-> TRUE]
    /\ query = [op |-> "none", err |-> NullErr, plug |-> NoValue, out |-> NoValue,
                calls |-> <<>>, seen |-> NoValue]

QueryUnchanged ==
    UNCHANGED <<table, calls, errMsg, bridge, wrappers, ExecVars, kv, codec, ctor>>

\* Each behaviour follows one query on a freshly built Executable.
QueryIdle == query.op = "none"

QueryOutputPrimitiveTypes ==
    /\ QueryIdle
    /\ \E err \in QueryErrs, plug \in ElementTypesAnswers :
          LET r == OutputPrimitiveTypes(table, errMsg, ExeHandle, err, plug)
          IN  query' = [op |-> "output_primitive_types", err |-> err, plug |-> plug,
                        out |-> r.res, calls |-> r.calls, seen |-> NoValue]
    /\ QueryUnchanged

\* C15: when the plugin reports an element type outside the known set,
\* output_primitive_types surfaces a recoverable unrecognized-variant error
\* instead of terminating.
C15_UnknownElementTypeIsErr ==
    (/\ query.op = "output_primitive_types"
     /\ query.err = NullErr
     /\ \E i \in DOMAIN query.plug.output_types :
           PrimitiveTypeTryFrom(query.plug.output_types[i]).tag # "Ok")
        => (query.out.tag = "Err" /\ query.out.kind = "InvalidPrimitiveType")

\* Program formats as the plugin spells them.
Mlir == <<"m", "l", "i", "r">>
Hlo == <<"h", "l", "o">>

InvalidProgramFormat(format) ==
    [tag |-> "Err", kind |-> "InvalidProgramFormat", value |-> format]

\* ProgramFormat::try_from(&str).
ProgramFormatTryFrom(format) ==
    CASE format = Mlir -> Ok("MLIR")
      [] format = Hlo -> Ok("HLO")
      [] OTHER -> InvalidProgramFormat(format)

\* Program::new(format, code).
ProgramNew(format, code) == [format |-> format, code |-> code]

\* PJRT_Program: the format string, the code pointer ("null", or "host" for
\* the host's code vector) and the code size.
ProgramRecord(format, format_size, code, code_size) ==
    [format |-> format, format_size |-> format_size, code |-> code, code_size |-> code_size]

\* args.program as PJRT_Executable_OptimizedProgram_Args::new() leaves it.
NullProgram == [null |-> TRUE, rec |-> ProgramRecord(<<>>, 0, "null", 0)]

\* What a read through a dangling or null record pointer may return.
GarbageProgram == ProgramRecord(<<>>, 0, "null", 0)

\* What the plugin may answer: which record it fills when args.program is null
\* ("own": a record of its own; "null": none), the format bytes at the
\* record's format pointer, and the optimized code.
PluginFormats ==
    {[bytes |-> Mlir, size |-> 4], [bytes |-> Hlo \o <<"x">>, size |-> 3],
     [bytes |-> Hlo, size |-> 2], [bytes |-> <<>>, size |-> 0]}

CodeBytes == SeqsOf({1, 2}, MaxCode)

OptimizeAnswers ==
    {[mode |-> m, err1 |-> e1, err2 |-> e2, format |-> f, code |-> cd] :
        m \in {"own", "null"}, e1 \in QueryErrs, e2 \in QueryErrs,
        f \in PluginFormats, cd \in CodeBytes}

\* One successful PJRT_Executable_OptimizedProgram call as the plugin serves
\* it: with no code pointer in the record it reports format and code_size,
\* with a code pointer it also writes the code through it.
PluginOptimizedProgram(program, buf, plug) ==
    IF program.null
    THEN IF plug.mode = "own"
         THEN [program |-> [null |-> FALSE,
                            rec |-> ProgramRecord(plug.format.bytes, plug.format.size,
                                                  "null", Len(plug.code))],
               buf |-> buf]
         ELSE [program |-> program, buf |-> buf]
    ELSE IF program.rec.code = "null"
         THEN [program |-> [program EXCEPT !.rec.code_size = Len(plug.code)], buf |-> buf]
         ELSE [program |-> [program EXCEPT !.rec.code_size = Len(plug.code)],
               buf |-> plug.code]

\* unsafe { *args.program }: a copy of the record, or undefined on null.
DerefProgram(program) ==
    IF program.null THEN {Fault, Ok(GarbageProgram)} ELSE {Ok(program.rec)}

OptimizeResultUnchecked(format, code) ==
    Ok(ProgramNew(IF format.tag = "Ok" THEN format.value ELSE "MLIR", code))

\* `ProgramFormat::try_from(..)?` then `Ok(Program::new(format, code))`.
OptimizeResult(format, code) ==
    IF format.tag = "Ok" THEN Ok(ProgramNew(format.value, code)) ELSE format

\* Executable::optimize: the possible outcomes, each with the calls issued,
\* whether the record the plugin saw in the second call pointed at the host's
\* code vector, and the bytes the plugin wrote in that call.
Optimize(tbl, msgs, ptr, plug) ==
    LET Out(res, cs, attached, written) ==
            [res |-> res, calls |-> cs, attached |-> attached, written |-> written]
        c1 == ApiFnRetErr(tbl, msgs, FnOptimizedProgram, ptr, plug.err1, "args")
        p1 == PluginOptimizedProgram(NullProgram, <<>>, plug)
        Second(prog) ==
            LET code == [i \in 1..prog.code_size |-> 0]
                local == [prog EXCEPT !.code = "host"]
                c2 == ApiFnRetErr(tbl, msgs, FnOptimizedProgram, ptr, plug.err2, "args")
                p2 == PluginOptimizedProgram(p1.program, code, plug)
                attached == ~p1.program.null /\ p1.program.rec.code = "host"
                written == IF attached THEN plug.code ELSE <<>>
                cs == c1.calls \o c2.calls
            IN  IF c2.res.tag # "Ok"
                THEN {Out(c2.res, cs, attached, <<>>)}
                ELSE {IF d2.tag = "fault"
                      THEN Out(Fault, cs, attached, written)
                      ELSE Out(OptimizeResult(
                                   ProgramFormatTryFrom(
                                       StrFromRaw(d2.value.format, d2.value.format_size)),
                                   p2.buf),
                               cs, attached, written) :
                         d2 \in DerefProgram(p2.program)}
    IN  IF c1.res.tag # "Ok"
        THEN {Out(c1.res, c1.calls, FALSE, <<>>)}
        ELSE UNION {IF d1.tag = "fault"
                    THEN {Out(Fault, c1.calls, FALSE, <<>>)}
                    ELSE Second(d1.value) :
                       d1 \in DerefProgram(p1.program)}

QueryOptimize ==
    /\ QueryIdle
    /\ \E plug \in OptimizeAnswers :
          \E r \in Optimize(table, errMsg, ExeHandle, plug) :
              query' = [op |-> "optimize", err |-> plug.err1, plug |-> plug,
                        out |-> r.res, calls |-> r.calls,
                        seen |-> [attached |-> r.attached, written |-> r.written]]
    /\ QueryUnchanged

\* Dimension values the plugin may report.
DimVals == {3, 4}

\* ptr.offset(k): the same allocation seen from k entries further on.
Offset(ptr, k) == [null |-> ptr.null, mem |-> SubSeq(ptr.mem, k + 1, Len(ptr.mem))]

\* What the plugin stores for PJRT_Executable_OutputDimensions: the rank of
\* each output and the dimensions of all outputs, concatenated.
RECURSIVE SumTo(_, _)
SumTo(sizes, i) == IF i = 0 THEN 0 ELSE SumTo(sizes, i - 1) + sizes[i]

DimensionsAnswers ==
    UNION {{[num_outputs |-> Len(sizes), dim_sizes |-> AsPtr(sizes), dims |-> AsPtr(dims)] :
               dims \in [1..SumTo(sizes, Len(sizes)) -> DimVals]} :
           sizes \in SeqsOf(0..MaxRank, MaxOutputs)}

\* The loop of output_dimenssions from iteration i on: the possible outcomes
\* of the reads, one per output.
RECURSIVE ReadOutputDims(_, _, _)
ReadOutputDims(dims, output_dim_size, i) ==
    IF i >= Len(output_dim_size)
    THEN {<<>>}
    ELSE {<<s>> \o rest :
             s \in FromRawParts(Offset(dims, i), output_dim_size[i + 1]),
             rest \in ReadOutputDims(dims, output_dim_size, i + 1)}

\* Executable::output_dimenssions: the possible outcomes.
OutputDimensions(tbl, msgs, ptr, err, plug) ==
    LET r == ApiFnRetErr(tbl, msgs, FnOutputDimensions, ptr, err, plug)
    IN  IF r.res.tag # "Ok"
        THEN {[res |-> Panic(FnOutputDimensions), calls |-> r.calls]}
        ELSE LET args == r.res.value
             IN  UNION {{[res |-> IF ods.tag = "fault" \/ \E i \in DOMAIN out : out[i].tag = "fault"
                                  THEN Fault
                                  ELSE Value([i \in DOMAIN out |-> out[i].value]),
                          calls |-> r.calls] :
                            out \in IF ods.tag = "fault" THEN {<<>>}
                                    ELSE ReadOutputDims(args.dims, ods.value, 0)} :
                        ods \in FromRawParts(args.dim_sizes, args.num_outputs)}

QueryOutputDimensions ==
    /\ QueryIdle
    /\ \E err \in QueryErrs, plug \in DimensionsAnswers :
          \E r \in OutputDimensions(table, errMsg, ExeHandle, err, plug) :
              query' = [op |-> "output_dimenssions", err |-> err, plug |-> plug,
                        out |-> r.res, calls |-> r.calls, seen |-> NoValue]
    /\ QueryUnchanged

NextQuery ==
    \/ QueryOutputPrimitiveTypes
    \/ QueryOutputDimensions
    \/ QueryOptimize

SpecQuery == InitQuery /\ [][NextQuery]_vars

\* The string by which the plugin reports a supported format.
FormatString(tag) == IF tag = "MLIR" THEN Mlir ELSE Hlo

SupportedTags == {"MLIR", "HLO"}

Reported(plug) == StrFromRaw(plug.format.bytes, plug.format.size)

Served(plug) == plug.mode = "own" /\ plug.err1 = NullErr /\ plug.err2 = NullErr

\* C17: when the plugin serves both calls and reports a supported format F,
\* optimize returns a Program whose format tag is F; when the reported format
\* is outside the supported set it returns Err; and no Program is ever
\* returned with a tag other than the one the plugin reported.
C17_FormatTagPreserved ==
    query.op = "optimize" =>
        /\ \A f \in SupportedTags :
              (Served(query.plug) /\ Reported(query.plug) = FormatString(f))
                  => (query.out.tag = "Ok" /\ query.out.value.format = f)
        /\ (Served(query.plug)
            /\ \A f \in SupportedTags : Reported(query.plug) # FormatString(f))
               => query.out.tag = "Err"
        /\ query.out.tag = "Ok"
               => Reported(query.plug) = FormatString(query.out.value.format)

\* C17 witness: the plugin reported "hlo" (in front of further bytes) and
\* optimize returned a Program tagged HLO.
C17_Witness ==
    /\ query.op = "optimize"
    /\ Served(query.plug)
    /\ query.plug.format.bytes = Hlo \o <<"x">>
    /\ query.out.tag = "Ok"
    /\ query.out.value.format = "HLO"

\* C19: optimize issues the optimized-program query twice; in the second call
\* the program record the plugin writes through points at a host buffer of
\* exactly code_size bytes, and the returned Program's code is precisely the
\* bytes the plugin wrote in that call.
C19_CodeFetchedInSecondCall ==
    (query.op = "optimize" /\ query.out.tag = "Ok") =>
        /\ Count(query.calls, Call(FnOptimizedProgram, ExeHandle)) = 2
        /\ Len(query.out.value.code) = Len(query.plug.code)
        /\ query.seen.attached
        /\ query.seen.written = query.plug.code
        /\ query.out.value.code = query.seen.written

\* The dimensions of output i (from 1) as the plugin laid them out: the
\* dim_sizes[i] entries that follow those of the outputs before it.
DimsOfOutput(plug, i) ==
    LET before == SumTo(plug.dim_sizes.mem, i - 1)
    IN  SubSeq(plug.dims.mem, before + 1, before + plug.dim_sizes.mem[i])

\* C20: output_dimenssions returns one list per output; list i has
\* dim_sizes[i] entries, those found at offset dim_sizes[0] + ... +
\* dim_sizes[i-1] of the plugin's flat dimension array.
C20_DimsAtCumulativeOffsets ==
    (query.op = "output_dimenssions" /\ query.err = NullErr) =>
        query.out = Value([i \in 1..query.plug.num_outputs |-> DimsOfOutput(query.plug, i)])

====
